---- MODULE Spec2Model ----
(***************************************************************************)
(* Organic food traceability: the ledger contract                          *)
(* (OrganicFoodTraceability.sol), the off-chain store (the Mongoose        *)
(* schemas) and the Express controllers that write to both.                *)
(*                                                                         *)
(* A controller is an async function: it runs atomically between two       *)
(* awaits, and requests interleave at the awaits.  Every request is a      *)
(* slot of req with a program counter; one action models one stretch of    *)
(* a handler between awaits.                                               *)
(*                                                                         *)
(* The ledger adapter (initWeb3 / initContract / getDefaultAccount and     *)
(* contract.methods.f(..).send) is a blocking call that returns a receipt  *)
(* or throws.  It throws when the transport fails (fault = "ledger") or    *)
(* when the contract function reverts for the arguments the controller     *)
(* passes; every backend transaction is sent from the default account.     *)
(* The wiring of the adapter is taken to work (the controllers call        *)
(* initContract and getDefaultAccount without the web3 instance these      *)
(* helpers expect), and an argument list is matched to the parameters of   *)
(* the contract function by meaning.                                       *)
(*                                                                         *)
(* The store keeps what the schemas declare: a field a controller passes   *)
(* that is no schema path is not persisted (Mongoose strict mode), a       *)
(* document with a missing required path or a value that cannot be cast    *)
(* is rejected by save(), and reading a path that is no schema path        *)
(* yields undefined (NoId / NoTx here).  The store is a persistent         *)
(* database: Init holds one certification, one product and one batch      *)
(* that satisfy the schemas.                                               *)
(***************************************************************************)
EXTENDS Integers, Sequences, FiniteSets, TLC

\* Bounds of the model.
MaxReq == 2
MaxTx == 3
MaxSent == 4

\* undefined / absent values
NoId == 0
NoTx == 0
None == "none"

Req == 1..MaxReq

\* accounts[0], the sender of every backend transaction; the deployer of the contract
Account == "account0"
Addrs == {Account}

\* the addresses that send transactions to the contract themselves
Wallets == {Account, "wallet1"}

\* req.user: no token, or the seeded user of a role
Anon == "anon"
Principals == {Anon, "admin", "farmer", "processor", "consumer"}

Hashes == {"h1", "h2"}

HandlerRoles == {"farmer", "processor", "distributor", "retailer"}

\* ------------------------------------------------------------------------
\* Sequence helpers

Includes(s, x) == \E i \in 1..Len(s) : s[i] = x

\* Array.prototype.indexOf, 1-based; 0 when absent
IndexOf(s, x) == IF Includes(s, x) THEN CHOOSE i \in 1..Len(s) : s[i] = x /\ \A j \in 1..(i-1) : s[j] # x ELSE 0

\* Array.prototype.splice(i, 1)
Splice(s, i) == [j \in 1..(Len(s)-1) |-> IF j < i THEN s[j] ELSE s[j+1]]

\* Array.prototype.pop
Pop(s) == IF Len(s) = 0 THEN s ELSE SubSeq(s, 1, Len(s)-1)

IsPrefix(s, t) == Len(s) <= Len(t) /\ \A i \in 1..Len(s) : s[i] = t[i]

\* ------------------------------------------------------------------------
\* The ledger: OrganicFoodTraceability.sol.
\* A ledger value l holds the contract's storage; each function below is
\* the contract function of the same name: XxxOk is the conjunction of its
\* modifiers and requires (the transaction reverts when it is false), and
\* the function itself is the storage after the transaction.

\* constructor: the deployer is the admin; counters at 0, mappings empty
LedgerInit == [txCount |-> 0, farmers |-> {}, products |-> <<>>, batches |-> <<>>, certifications |-> <<>>, registeredQRCodes |-> {}, called |-> {}, roles |-> [w \in Wallets |-> {}]]

hasAdminRole(sender) == sender = Account

hasFarmerRole(l, sender) == sender \in DOMAIN l.roles /\ "farmer" \in l.roles[sender]

\* products[_id].id == _id : an unset mapping entry reads as the zero struct
productIdMatches(l, id) == id = 0 \/ id \in 1..Len(l.products)

batchIdMatches(l, id) == id = 0 \/ id \in 1..Len(l.batches)

certificationIdMatches(l, id) == id = 0 \/ id \in 1..Len(l.certifications)

batchIsActive(l, id) == id \in 1..Len(l.batches) /\ l.batches[id].isActive

certificationIsValid(l, id) == id \in 1..Len(l.certifications) /\ l.certifications[id].isValid

\* every committed transaction gets the next transaction hash; called is the
\* set of contract functions that have committed a transaction
Commit(l, fn) == [l EXCEPT !.txCount = @ + 1, !.called = @ \cup {fn}]

registerFarmerOk(l, sender, farmerId) == hasAdminRole(sender)

registerFarmer(l, sender, farmerId) == Commit([l EXCEPT !.farmers = @ \cup {farmerId}, !.roles[farmerId] = @ \cup {"farmer"}], "registerFarmer")

\* AccessControl.grantRole: the deployer holds DEFAULT_ADMIN_ROLE, the admin of every role
grantRoleOk(l, sender, role, account) == hasAdminRole(sender)

grantRole(l, sender, role, account) == Commit([l EXCEPT !.roles[account] = @ \cup {role}], "grantRole")

\* AccessControl.renounceRole: require(account == _msgSender()); the role is taken
\* from the account when it holds it
renounceRoleOk(l, sender, role, account) == account = sender

renounceRole(l, sender, role, account) == Commit([l EXCEPT !.roles[account] = @ \ {role}], "renounceRole")

createBatchOk(l, sender) == hasFarmerRole(l, sender)

\* a faulty allocation: the batch starts without its creation record
NewLedgerBatchNoRecord(l, sender, productIds) == [id |-> Len(l.batches) + 1, productIds |-> productIds, handlerIds |-> <<sender>>, traceabilityRecords |-> <<>>, isActive |-> TRUE]

NewLedgerBatch(l, sender, productIds) == [id |-> Len(l.batches) + 1, productIds |-> productIds, handlerIds |-> <<sender>>, traceabilityRecords |-> <<[handlerId |-> sender, handlerRole |-> "FARMER", action |-> "BATCH_CREATED"]>>, isActive |-> TRUE]

createBatchStorage(l, sender, productIds) == [l EXCEPT !.batches = Append(@, NewLedgerBatch(l, sender, productIds))]

createBatch(l, sender, productIds) == Commit(createBatchStorage(l, sender, productIds), "createBatch")

\* a faulty guard: the given batch is not looked at
createProductOkAnyBatch(l, sender, batchId) == hasFarmerRole(l, sender) /\ sender \in l.farmers

\* onlyRole(FARMER_ROLE); require(farmers[msg.sender].isActive); require(batches[_batchId].isActive)
createProductOk(l, sender, batchId) == hasFarmerRole(l, sender) /\ sender \in l.farmers /\ (batchId = 0 \/ batchIsActive(l, batchId))

\* a faulty createProduct: the product is not entered in the batch's product list
createProductStorageNoPush(l, sender, batchId) ==
  LET l1 == IF batchId = 0 THEN createBatchStorage(l, sender, <<>>) ELSE l
      newBatchId == IF batchId = 0 THEN Len(l1.batches) ELSE batchId
      productId == Len(l.products) + 1
  IN [l1 EXCEPT !.products = Append(@, [id |-> productId, farmerId |-> sender, batchId |-> newBatchId, certificationIds |-> <<>>])]

\* a faulty createProduct: the product keeps the batch id it was given
createProductStorageGivenBatch(l, sender, batchId) ==
  LET l1 == IF batchId = 0 THEN createBatchStorage(l, sender, <<>>) ELSE l
      newBatchId == IF batchId = 0 THEN Len(l1.batches) ELSE batchId
      productId == Len(l.products) + 1
  IN [l1 EXCEPT !.products = Append(@, [id |-> productId, farmerId |-> sender, batchId |-> batchId, certificationIds |-> <<>>]),
                !.batches[newBatchId].productIds = Append(@, productId)]

createProductStorage(l, sender, batchId) ==
  LET l1 == IF batchId = 0 THEN createBatchStorage(l, sender, <<>>) ELSE l
      newBatchId == IF batchId = 0 THEN Len(l1.batches) ELSE batchId
      productId == Len(l.products) + 1
  IN [l1 EXCEPT !.products = Append(@, [id |-> productId, farmerId |-> sender, batchId |-> newBatchId, certificationIds |-> <<>>]),
                !.batches[newBatchId].productIds = Append(@, productId)]

createProduct(l, sender, batchId) == Commit(createProductStorage(l, sender, batchId), "createProduct")

addCertificationOk(l, sender, certificateHash) == hasAdminRole(sender) /\ certificateHash # None

\* a faulty contract function: the new certification replaces the stored ones
addCertificationOverwrite(l, sender, certificateHash) == Commit([l EXCEPT !.certifications = <<[id |-> Len(l.certifications) + 1, certificateHash |-> certificateHash, isValid |-> TRUE]>>], "addCertification")

addCertification(l, sender, certificateHash) == Commit([l EXCEPT !.certifications = Append(@, [id |-> Len(l.certifications) + 1, certificateHash |-> certificateHash, isValid |-> TRUE])], "addCertification")

addCertificationToProductOk(l, sender, productId, certificationId) == hasAdminRole(sender) /\ productIdMatches(l, productId) /\ certificationIdMatches(l, certificationId) /\ certificationIsValid(l, certificationId)

\* certificationIsValid makes certificationId a real id; productId 0 writes the zero slot
addCertificationToProduct(l, sender, productId, certificationId) == Commit(IF productId = 0 THEN l ELSE [l EXCEPT !.products[productId].certificationIds = Append(@, certificationId)], "addCertificationToProduct")

ResolveHandlerRole(roles) ==
  LET r0 == "UNKNOWN"
      r1 == IF "farmer" \in roles THEN "FARMER" ELSE r0
      r2 == IF "processor" \in roles THEN "PROCESSOR" ELSE r1
      r3 == IF "distributor" \in roles THEN "DISTRIBUTOR" ELSE r2
  IN IF "retailer" \in roles THEN "RETAILER" ELSE r3

\* the handler roles an address holds on the ledger: FARMER_ROLE is granted by
\* registerFarmer, every role by grantRole
LedgerRoles(l, sender) == IF sender \in DOMAIN l.roles THEN l.roles[sender] ELSE {}

\* a faulty guard: the batch's active flag is not required
addTraceabilityRecordOkAnyBatch(l, sender, batchId) == batchIdMatches(l, batchId) /\ LedgerRoles(l, sender) \cap HandlerRoles # {}

addTraceabilityRecordOk(l, sender, batchId) == batchIdMatches(l, batchId) /\ batchIsActive(l, batchId) /\ LedgerRoles(l, sender) \cap HandlerRoles # {}

\* a faulty insert: the sender is added without the search
AddHandlerAlways(handlerIds, sender) == Append(handlerIds, sender)

AddHandler(handlerIds, sender) == IF Includes(handlerIds, sender) THEN handlerIds ELSE Append(handlerIds, sender)

addTraceabilityRecord(l, sender, batchId, action) ==
  Commit([l EXCEPT !.batches[batchId].traceabilityRecords = Append(@, [handlerId |-> sender, handlerRole |-> ResolveHandlerRole(LedgerRoles(l, sender)), action |-> action]),
                   !.batches[batchId].handlerIds = AddHandler(@, sender)], "addTraceabilityRecord")

\* a faulty guard: a registered hash is accepted again
registerQRCodeOkAgain(l, sender, qrCodeHash, productId) == hasAdminRole(sender) /\ qrCodeHash # None /\ productIdMatches(l, productId)

registerQRCodeOk(l, sender, qrCodeHash, productId) == hasAdminRole(sender) /\ qrCodeHash # None /\ qrCodeHash \notin l.registeredQRCodes /\ productIdMatches(l, productId)

registerQRCode(l, sender, qrCodeHash, productId) == Commit([l EXCEPT !.registeredQRCodes = @ \cup {qrCodeHash}], "registerQRCode")

\* verifyQRCode(_qrCodeHash): a view, registeredQRCodes[_qrCodeHash]
verifyQRCode(l, qrCodeHash) == qrCodeHash \in l.registeredQRCodes

\* ------------------------------------------------------------------------
\* The off-chain store: the Mongoose models.
\* new Model(obj) keeps the schema's paths of obj and fills the defaults;
\* XxxValid is what save() validates.

Path(obj, p, default) == IF p \in DOMAIN obj THEN obj[p] ELSE default

NoInfo == [id |-> NoId, transactionHash |-> NoTx]

\* certificationSchema
NewCertificationDoc(obj) == [certificateHash |-> Path(obj, "certificateHash", None), expiryDate |-> Path(obj, "expiryDate", 0), isValid |-> Path(obj, "isValid", TRUE), blockchainInfo |-> Path(obj, "blockchainInfo", NoInfo)]

\* traceabilityRecordSchema
NewRecordDoc(obj) == [action |-> Path(obj, "action", None), handler |-> Path(obj, "handler", None), handlerRole |-> Path(obj, "handlerRole", None), blockchainInfo |-> Path(obj, "blockchainInfo", NoInfo)]

\* handler and handlerRole are required, handlerRole is one of the enum
RecordValid(rec) == rec.handler # None /\ rec.handlerRole \in HandlerRoles /\ rec.action # None

\* batchSchema
NewBatchDoc(obj) == [v |-> 0, products |-> Path(obj, "products", <<>>), handlers |-> Path(obj, "handlers", <<>>), traceabilityRecords |-> [i \in 1..Len(Path(obj, "traceabilityRecords", <<>>)) |-> NewRecordDoc(obj.traceabilityRecords[i])], isActive |-> Path(obj, "isActive", TRUE), blockchainInfo |-> Path(obj, "blockchainInfo", NoInfo)]

BatchValid(doc) == \A i \in 1..Len(doc.traceabilityRecords) : RecordValid(doc.traceabilityRecords[i])

\* productSchema; v is the document's version key
NewProductDoc(obj) == [farmer |-> Path(obj, "farmer", None), batch |-> Path(obj, "batch", NoId), certifications |-> Path(obj, "certifications", <<>>), qrCode |-> Path(obj, "qrCode", None), v |-> 0, blockchainInfo |-> Path(obj, "blockchainInfo", NoInfo)]

\* qrCode is a String path: an object assigned to it cannot be cast
ProductValid(doc) == doc.farmer # None /\ doc.qrCode # "object"

\* qrCodeSchema
NewQRCodeDoc(obj) == [hash |-> Path(obj, "hash", None), product |-> Path(obj, "product", NoId), scans |-> Path(obj, "scans", <<>>), isActive |-> Path(obj, "isActive", TRUE), blockchainInfo |-> Path(obj, "blockchainInfo", NoInfo)]

\* hash is required and unique
QRCodeValid(st, doc) == doc.hash # None /\ doc.product # NoId /\ \A i \in 1..Len(st.qrcodes) : st.qrcodes[i].hash # doc.hash

SeedProduct == NewProductDoc([farmer |-> "farmer", batch |-> 1])

SeedBatch == NewBatchDoc([handlers |-> <<"farmer">>, products |-> <<1>>, traceabilityRecords |-> <<[action |-> "Harvested", handler |-> "farmer", handlerRole |-> "farmer"]>>])

SeedCertification == NewCertificationDoc([certificateHash |-> "h0", expiryDate |-> 1])

\* a certification that deleteCertification has marked invalid
RevokedCertification == [NewCertificationDoc([certificateHash |-> "h9", expiryDate |-> 1]) EXCEPT !.isValid = FALSE]

\* the users collection after seeding, by _id: the admin and the farmer (a deleted
\* user leaves the domain)
SeedUsers == <<[role |-> "admin"], [role |-> "farmer"]>>

StoreInit == [certifications |-> <<SeedCertification, RevokedCertification>>, products |-> <<SeedProduct>>, batches |-> <<SeedBatch>>, qrcodes |-> <<>>, users |-> SeedUsers]

\* User.countDocuments({role: 'admin'})
AdminCount(st) == Cardinality({u \in DOMAIN st.users : st.users[u].role = "admin"})

\* an id that no document has
Unknown == 9

\* a QR code left from before the database was seeded again: the seed script
\* clears users, products, batches and certifications, not QR codes
OrphanQRCode == NewQRCodeDoc([hash |-> "h8", product |-> Unknown])

\* ------------------------------------------------------------------------
\* Requests

VARIABLES ledger, store, req, sent

vars == <<ledger, store, req, sent>>

Ops == {"createCertification", "deleteCertification", "createBatch", "updateBatch", "createProduct", "addTraceabilityRecord", "generateQRCode", "addCertification", "removeCertification", "updateCertification", "verifyCertification", "deactivateQRCode", "verifyQRCode", "updateUser", "deleteUser"}

Faults == {"none", "ledger", "store"}

NoDoc == [certifications |-> <<>>, v |-> 0, handlers |-> <<>>]

\* verified is the json's verified field, None when the json has none
NoResp == [status |-> 0, message |-> None, tx |-> NoTx, verified |-> None]

\* a request body without fields
NoBody == <<>>

\* the last transaction a wallet sent and whether it committed
NoSent == [fn |-> None, sender |-> None, batchId |-> NoId, productId |-> NoId, certificationId |-> NoId, role |-> None, hash |-> None, ok |-> FALSE]

Idle == [op |-> None, user |-> Anon, uid |-> NoId, target |-> NoId, product |-> NoId, cert |-> NoId, hash |-> None, fault |-> "none", pc |-> "idle", tx |-> NoTx, newId |-> NoId, doc |-> NoDoc, rows |-> {}, submitted |-> FALSE, attempts |-> 0, wrote |-> FALSE, storeFailed |-> FALSE, body |-> NoBody, now |-> 0, queried |-> FALSE, registered |-> FALSE, resp |-> NoResp]

\* res.status(s).json({message, blockchainData: {transactionHash}}) ends the handler
Respond(q, status, message, tx) == [q EXCEPT !.pc = "done", !.doc = NoDoc, !.resp = [status |-> status, message |-> message, tx |-> tx, verified |-> None]]

\* res.status(s).json({verified, message}) of the two verify handlers
Answer(q, status, verified, message) == [q EXCEPT !.pc = "done", !.doc = NoDoc, !.resp = [status |-> status, message |-> message, tx |-> NoTx, verified |-> IF verified THEN "true" ELSE "false"]]

\* the catch block of every controller
ServerError(q) == Respond(q, 500, "Server error", NoTx)

\* the roles a user document can have (user.role is one string)
Capabilities == {"admin", "farmer", "processor", "distributor", "retailer", "certifier", "consumer"}

\* authorize(roles)(req, res, next): the status it answers, 0 when it calls next()
authorize(user, roles) ==
  IF user = Anon THEN 401
  ELSE IF roles # {} /\ user \notin roles THEN 403
  ELSE 0

\* a faulty route table: authenticate alone on every route
RouteRolesOpen(op) == Principals \ {Anon}

\* auth.middleware: authorize(roles), isAdmin, isFarmer, isStakeholder, or authenticate alone
RouteRoles(op) ==
  CASE op = "createCertification" -> {"admin", "certifier"}
    [] op = "deleteCertification" -> {"admin"}
    [] op = "createBatch" -> {"farmer", "processor", "admin"}
    [] op = "createProduct" -> {"farmer", "admin"}
    [] op = "addTraceabilityRecord" -> {"admin", "farmer", "processor", "distributor", "retailer"}
    [] op = "generateQRCode" -> {"farmer", "admin"}
    [] op = "updateCertification" -> {"admin", "certifier"}
    [] op = "deleteUser" -> {"admin"}
    [] OTHER -> Principals \ {Anon}

\* the routes without authenticate: POST /certifications/verify, GET /qrcodes/verify/:hash
Public(op) == op \in {"verifyCertification", "verifyQRCode"}

\* the controllers that return 400 on validationResult(req) errors
ChecksValidation(op) == op \in {"createCertification", "createBatch", "createProduct", "addTraceabilityRecord", "generateQRCode", "updateUser"}

\* a faulty order: createCertification saves before it submits
FirstStageStore(op) ==
  CASE op = "createCertification" -> "store"
    [] op = "createProduct" -> "ledger"
    [] OTHER -> "find"

\* the first await of the controller
FirstStage(op) ==
  CASE op \in {"createCertification", "createProduct"} -> "ledger"
    [] OTHER -> "find"

\* req.params / req.body of a request that passed the route's checks
Inputs ==
  [op : {"createCertification"}, target : {NoId}, product : {NoId}, cert : {NoId}, hash : {"c1"}]
    \cup [op : {"deleteCertification"}, target : {1, Unknown}, product : {NoId}, cert : {NoId}, hash : {None}]
    \cup [op : {"createBatch"}, target : {NoId, 1, Unknown}, product : {NoId}, cert : {NoId}, hash : {None}]
    \cup [op : {"createProduct"}, target : {NoId}, product : {NoId}, cert : {NoId}, hash : {None}]
    \cup [op : {"addTraceabilityRecord"}, target : {1, Unknown}, product : {NoId}, cert : {NoId}, hash : {None}]
    \cup [op : {"generateQRCode"}, target : {1, Unknown}, product : {NoId}, cert : {NoId}, hash : Hashes]
    \cup [op : {"addCertification"}, target : {1, Unknown}, product : {NoId}, cert : {1, 2, Unknown}, hash : {None}]
    \cup [op : {"removeCertification"}, target : {1, Unknown}, product : {NoId}, cert : {1, Unknown}, hash : {None}]

\* the requests on batches; updateBatch: req.body.products is absent, [1] or [Unknown]
BatchInputs ==
  [op : {"createBatch"}, target : {NoId, 1, Unknown}, product : {NoId}, cert : {NoId}, hash : {None}]
    \cup [op : {"addTraceabilityRecord"}, target : {1, Unknown}, product : {NoId}, cert : {NoId}, hash : {None}]
    \cup [op : {"updateBatch"}, target : {1, Unknown}, product : {NoId, 1, Unknown}, cert : {NoId}, hash : {None}]

\* the requests that create products and batches or rewrite a batch's product list
ProductInputs ==
  [op : {"createProduct"}, target : {NoId}, product : {NoId}, cert : {NoId}, hash : {None}]
    \cup [op : {"createBatch"}, target : {NoId, 1, Unknown}, product : {NoId}, cert : {NoId}, hash : {None}]
    \cup [op : {"updateBatch"}, target : {1, Unknown}, product : {NoId, 1, Unknown}, cert : {NoId}, hash : {None}]

\* the dates of the model: expiry dates and the clock readings of verifyCertification
Dates == {1, 2}

\* the requests on certifications: PUT /:id with isValid, with expiryDate or with
\* neither, DELETE /:id, POST /verify, and the attach of a certification to a product
CertificationInputs ==
  [op : {"updateCertification"}, target : {1, 2, Unknown}, product : {NoId}, cert : {NoId}, hash : {None}, body : {NoBody, [isValid |-> FALSE], [isValid |-> TRUE], [expiryDate |-> 2]}]
    \cup [op : {"deleteCertification"}, target : {1, Unknown}, product : {NoId}, cert : {NoId}, hash : {None}]
    \cup [op : {"verifyCertification"}, target : {NoId}, product : {NoId}, cert : {NoId}, hash : {"h0", "h9", "c1", None}, now : Dates]
    \cup [op : {"addCertification"}, target : {1}, product : {NoId}, cert : {1}, hash : {None}]

\* the requests on QR codes: generate for a product, deactivate and verify a hash
\* ("h8" is the orphaned code, "h7" a hash nobody has); with them the other public
\* verification, of a certificate
QRCodeInputs ==
  [op : {"generateQRCode"}, target : {1, Unknown}, product : {NoId}, cert : {NoId}, hash : Hashes]
    \cup [op : {"deactivateQRCode", "verifyQRCode"}, target : {NoId}, product : {NoId}, cert : {NoId}, hash : Hashes \cup {"h7", "h8"}]
    \cup [op : {"verifyCertification"}, target : {NoId}, product : {NoId}, cert : {NoId}, hash : {"h0", "h9", "c1"}, now : Dates]

\* the requests on users: DELETE /:id, and PUT /:id with no role or the role admin
\* in the body
UserInputs ==
  [op : {"deleteUser"}, target : DOMAIN SeedUsers \cup {Unknown}, product : {NoId}, cert : {NoId}, hash : {None}, uid : {NoId}]
    \cup [op : {"updateUser"}, target : DOMAIN SeedUsers \cup {Unknown}, product : {NoId}, cert : {NoId}, hash : {None}, uid : {NoId}, body : {NoBody, [role |-> "admin"]}]

\* crypto.randomBytes(32) hashed with sha256: a hash nobody has drawn before
UsedHashes == {store.qrcodes[i].hash : i \in 1..Len(store.qrcodes)} \cup ledger.registeredQRCodes \cup {req[r].hash : r \in Req}

\* authenticate, then the route's role middleware, then validationResult(req)
Route(in, user, ok, fault) ==
  LET q == [Idle EXCEPT !.op = in.op, !.user = user]
  IN IF ~Public(in.op) /\ user = Anon THEN Respond(q, 401, "No token, authorization denied", NoTx)
     ELSE IF ~Public(in.op) /\ user \notin RouteRoles(in.op) THEN Respond(q, 403, "Access denied", NoTx)
     ELSE IF ChecksValidation(in.op) /\ ~ok THEN Respond(q, 400, "Validation error", NoTx)
     ELSE [q EXCEPT !.uid = Path(in, "uid", NoId), !.target = in.target, !.product = in.product, !.cert = in.cert, !.hash = in.hash, !.body = Path(in, "body", NoBody), !.now = Path(in, "now", 0), !.fault = fault, !.pc = FirstStage(in.op)]

ReceiveFrom(r, inputs) ==
  /\ req[r].pc = "idle"
  /\ \A s \in 1..(r-1) : req[s].pc # "idle"
  /\ \E in \in inputs, user \in Principals, ok \in BOOLEAN, fault \in Faults :
       /\ in.op = "generateQRCode" => in.hash \notin UsedHashes
       /\ req' = [req EXCEPT ![r] = Route(in, user, ok, fault)]
  /\ UNCHANGED <<ledger, store, sent>>

Receive(r) == ReceiveFrom(r, Inputs)

ReceiveBatch(r) == ReceiveFrom(r, BatchInputs)

ReceiveProduct(r) == ReceiveFrom(r, ProductInputs)

ReceiveCertification(r) == ReceiveFrom(r, CertificationInputs)

ReceiveQRCode(r) == ReceiveFrom(r, QRCodeInputs)

\* a request on users: the token holds the id and the role of a user of the store
ReceiveUser(r) ==
  /\ req[r].pc = "idle"
  /\ \A s \in 1..(r-1) : req[s].pc # "idle"
  /\ \E in \in UserInputs, uid \in DOMAIN store.users \cup {NoId}, ok \in BOOLEAN, fault \in {"none", "store"} :
       req' = [req EXCEPT ![r] = Route([in EXCEPT !.uid = uid], IF uid = NoId THEN Anon ELSE store.users[uid].role, ok, fault)]
  /\ UNCHANGED <<ledger, store, sent>>

\* product.farmer.toString() !== req.user.id && req.user.role !== 'admin'
NotOwner(q) == store.products[q.target].farmer # q.user /\ q.user # "admin"

ProductDoc(q) == [NoDoc EXCEPT !.certifications = store.products[q.target].certifications, !.v = store.products[q.target].v]

\* Certification.findOne({certificateHash}): the first document with the hash, 0 when none
FindCertification(st, hash) == IF \E i \in 1..Len(st.certifications) : st.certifications[i].certificateHash = hash THEN CHOOSE i \in 1..Len(st.certifications) : st.certifications[i].certificateHash = hash /\ \A j \in 1..(i-1) : st.certifications[j].certificateHash # hash ELSE 0

\* a faulty verdict: the expiry date is not looked at
VerdictNoExpiry(certification, now) ==
  IF ~certification.isValid THEN "Certificate has been revoked"
  ELSE "Certificate is valid"

\* verifyCertification: isExpired = certification.expiryDate < now; the revoked
\* test comes first
Verdict(certification, now) ==
  IF ~certification.isValid THEN "Certificate has been revoked"
  ELSE IF certification.expiryDate < now THEN "Certificate has expired"
  ELSE "Certificate is valid"

verifyCertification(q) ==
  IF q.hash = None THEN Respond(q, 400, "Certificate hash is required", NoTx)
  ELSE IF FindCertification(store, q.hash) = 0 THEN Answer(q, 404, FALSE, "Certificate not found")
  ELSE LET message == Verdict(store.certifications[FindCertification(store, q.hash)], q.now)
       IN Answer(q, 200, message = "Certificate is valid", message)

\* QRCode.findOne({hash}): hash is unique; 0 when there is none
FindQRCode(st, hash) == IF \E i \in 1..Len(st.qrcodes) : st.qrcodes[i].hash = hash THEN CHOOSE i \in 1..Len(st.qrcodes) : st.qrcodes[i].hash = hash ELSE 0

\* a faulty lookup: the scan of a deactivated code is recorded
verifyQRCodeFindScan(q) ==
  IF FindQRCode(store, q.hash) = 0 THEN Answer(q, 404, FALSE, "QR code not found")
  ELSE LET qrCode == store.qrcodes[FindQRCode(store, q.hash)]
       IN IF ~qrCode.isActive THEN [q EXCEPT !.pc = "store"]
          ELSE IF qrCode.product \notin 1..Len(store.products) THEN Answer(q, 404, FALSE, "Associated product not found")
          ELSE [q EXCEPT !.target = qrCode.product, !.pc = "call"]

\* a faulty lookup: the active flag is not tested
verifyQRCodeFindAnyFlag(q) ==
  IF FindQRCode(store, q.hash) = 0 THEN Answer(q, 404, FALSE, "QR code not found")
  ELSE LET qrCode == store.qrcodes[FindQRCode(store, q.hash)]
       IN IF qrCode.product \notin 1..Len(store.products) THEN Answer(q, 404, FALSE, "Associated product not found")
          ELSE [q EXCEPT !.target = qrCode.product, !.pc = "call"]

\* a faulty lookup: the product is not looked up
verifyQRCodeFindNoProduct(q) ==
  IF FindQRCode(store, q.hash) = 0 THEN Answer(q, 404, FALSE, "QR code not found")
  ELSE LET qrCode == store.qrcodes[FindQRCode(store, q.hash)]
       IN IF ~qrCode.isActive THEN Answer(q, 200, FALSE, "QR code has been deactivated")
          ELSE [q EXCEPT !.target = qrCode.product, !.pc = "call"]

\* verifyQRCode up to the ledger query
verifyQRCodeFind(q) ==
  IF FindQRCode(store, q.hash) = 0 THEN Answer(q, 404, FALSE, "QR code not found")
  ELSE LET qrCode == store.qrcodes[FindQRCode(store, q.hash)]
       IN IF ~qrCode.isActive THEN Answer(q, 200, FALSE, "QR code has been deactivated")
          ELSE IF qrCode.product \notin 1..Len(store.products) THEN Answer(q, 404, FALSE, "Associated product not found")
          ELSE [q EXCEPT !.target = qrCode.product, !.pc = "call"]

\* a faulty handler: the owner is not checked
deactivateQRCodeFindAnyone(q) ==
  IF FindQRCode(store, q.hash) = 0 THEN Respond(q, 404, "QR code not found", NoTx)
  ELSE LET qrCode == store.qrcodes[FindQRCode(store, q.hash)]
       IN IF qrCode.product \notin 1..Len(store.products) THEN Respond(q, 404, "Associated product not found", NoTx)
          ELSE [q EXCEPT !.target = qrCode.product, !.pc = "store"]

\* deactivateQRCode up to the save
deactivateQRCodeFind(q) ==
  IF FindQRCode(store, q.hash) = 0 THEN Respond(q, 404, "QR code not found", NoTx)
  ELSE LET qrCode == store.qrcodes[FindQRCode(store, q.hash)]
       IN IF qrCode.product \notin 1..Len(store.products) THEN Respond(q, 404, "Associated product not found", NoTx)
          ELSE IF store.products[qrCode.product].farmer # q.user /\ q.user # "admin" THEN Respond(q, 403, "Not authorized to deactivate this QR code", NoTx)
          ELSE [q EXCEPT !.target = qrCode.product, !.pc = "store"]

\* Model.findById / countDocuments and the checks on what was found
FindStep(q) ==
  CASE q.op = "createBatch" ->
         IF q.target = Unknown THEN Respond(q, 400, "One or more products not found", NoTx)
         ELSE [q EXCEPT !.pc = "ledger"]
    [] q.op = "addTraceabilityRecord" ->
         IF q.target \notin 1..Len(store.batches) THEN Respond(q, 404, "Batch not found", NoTx)
         ELSE [q EXCEPT !.doc.handlers = store.batches[q.target].handlers, !.pc = "ledger"]
    [] q.op = "updateBatch" ->
         IF q.target \notin 1..Len(store.batches) THEN Respond(q, 404, "Batch not found", NoTx)
         ELSE IF ~Includes(store.batches[q.target].handlers, q.user) /\ q.user # "admin" THEN Respond(q, 403, "Not authorized to update this batch", NoTx)
         ELSE IF q.product # NoId /\ q.product \notin 1..Len(store.products) THEN Respond(q, 400, "One or more products not found", NoTx)
         ELSE [q EXCEPT !.doc.v = store.batches[q.target].v, !.pc = "store"]
    [] q.op \in {"deleteCertification", "updateCertification"} ->
         IF q.target \notin 1..Len(store.certifications) THEN Respond(q, 404, "Certification not found", NoTx)
         ELSE [q EXCEPT !.pc = "store"]
    [] q.op = "verifyCertification" -> verifyCertification(q)
    [] q.op = "verifyQRCode" -> verifyQRCodeFind(q)
    [] q.op = "deactivateQRCode" -> deactivateQRCodeFind(q)
    [] q.op = "deleteUser" ->
         IF q.user # "admin" THEN Respond(q, 403, "Not authorized to delete users", NoTx)
         ELSE IF q.target \notin DOMAIN store.users THEN Respond(q, 404, "User not found", NoTx)
         ELSE IF store.users[q.target].role = "admin" THEN [q EXCEPT !.pc = "count"]
         ELSE [q EXCEPT !.pc = "store"]
    [] q.op = "updateUser" ->
         IF q.target # q.uid /\ q.user # "admin" THEN Respond(q, 403, "Not authorized to update this user", NoTx)
         ELSE [q EXCEPT !.pc = "store"]
    [] q.op = "generateQRCode" ->
         IF q.target \notin 1..Len(store.products) THEN Respond(q, 404, "Product not found", NoTx)
         ELSE IF NotOwner(q) THEN Respond(q, 403, "Not authorized", NoTx)
         ELSE [q EXCEPT !.pc = "ledger"]
    [] q.op = "addCertification" ->
         IF q.target \notin 1..Len(store.products) THEN Respond(q, 404, "Product not found", NoTx)
         ELSE IF NotOwner(q) THEN Respond(q, 403, "Not authorized", NoTx)
         ELSE IF Includes(store.products[q.target].certifications, q.cert) THEN Respond(q, 400, "Certification already added to this product", NoTx)
         ELSE [q EXCEPT !.doc = ProductDoc(q), !.pc = "store"]
    [] OTHER ->
         IF q.target \notin 1..Len(store.products) THEN Respond(q, 404, "Product not found", NoTx)
         ELSE IF NotOwner(q) THEN Respond(q, 403, "Not authorized", NoTx)
         ELSE IF IndexOf(store.products[q.target].certifications, q.cert) = 0 THEN Respond(q, 404, "Certification not found on this product", NoTx)
         ELSE [q EXCEPT !.doc = ProductDoc(q), !.pc = "store"]

Find(r) ==
  /\ req[r].pc = "find"
  /\ req' = [req EXCEPT ![r] = FindStep(req[r])]
  /\ UNCHANGED <<ledger, store, sent>>

\* deleteUser of an admin: adminCount = await User.countDocuments({role: 'admin'})
CountStep(q) ==
  IF AdminCount(store) <= 1 THEN Respond(q, 400, "Cannot delete the last admin user", NoTx)
  ELSE [q EXCEPT !.pc = "store"]

Count(r) ==
  /\ req[r].pc = "count"
  /\ req' = [req EXCEPT ![r] = CountStep(req[r])]
  /\ UNCHANGED <<ledger, store, sent>>

\* batch.blockchainBatchId, product.blockchainProductId : no path of the schema
blockchainBatchId(doc) == Path(doc, "blockchainBatchId", NoId)

blockchainProductId(doc) == Path(doc, "blockchainProductId", NoId)

\* contract.methods.f(..).send({from: account}) : does the transaction commit?
\* (addCertification of a product passes two arguments to the contract's
\* addCertification: there is no certificate hash)
LedgerOk(q) ==
  /\ q.fault # "ledger"
  /\ CASE q.op = "createCertification" -> addCertificationOk(ledger, Account, q.hash)
       [] q.op = "createBatch" -> createBatchOk(ledger, Account)
       [] q.op = "createProduct" -> createProductOk(ledger, Account, NoId)
       [] q.op = "addTraceabilityRecord" -> addTraceabilityRecordOk(ledger, Account, blockchainBatchId(store.batches[q.target]))
       [] q.op = "generateQRCode" -> registerQRCodeOk(ledger, Account, q.hash, blockchainProductId(store.products[q.target]))
       [] OTHER -> addCertificationOk(ledger, Account, None)

LedgerAfter(q) ==
  CASE q.op = "createCertification" -> addCertification(ledger, Account, q.hash)
    [] q.op = "createBatch" -> createBatch(ledger, Account, <<>>)
    [] q.op = "createProduct" -> createProduct(ledger, Account, NoId)
    [] q.op = "addTraceabilityRecord" -> addTraceabilityRecord(ledger, Account, blockchainBatchId(store.batches[q.target]), "record")
    [] q.op = "generateQRCode" -> registerQRCode(ledger, Account, q.hash, blockchainProductId(store.products[q.target]))
    [] OTHER -> addCertification(ledger, Account, None)

\* result.events.XxxCreated.returnValues.xxxId
AssignedId(q) ==
  CASE q.op = "createCertification" -> Len(ledger.certifications) + 1
    [] q.op = "createBatch" -> Len(ledger.batches) + 1
    [] q.op = "createProduct" -> Len(ledger.products) + 1
    [] OTHER -> NoId

\* the step after the receipt, and the step after the throw
AfterReceipt(q) ==
  LET q1 == [q EXCEPT !.submitted = TRUE, !.tx = ledger.txCount + 1, !.newId = AssignedId(q)]
  IN IF q.op = "addCertification" THEN Respond(q1, 200, "Certification added successfully", q1.tx)
     ELSE [q1 EXCEPT !.pc = "store"]

AfterThrow(q) ==
  LET q1 == [q EXCEPT !.submitted = TRUE]
  IN IF q.op = "addCertification" THEN [q1 EXCEPT !.pc = "rollback"]
     ELSE ServerError(q1)

Submit(r) ==
  /\ req[r].pc = "ledger"
  /\ LedgerOk(req[r]) => ledger.txCount < MaxTx
  /\ ledger' = IF LedgerOk(req[r]) THEN LedgerAfter(req[r]) ELSE ledger
  /\ req' = [req EXCEPT ![r] = IF LedgerOk(req[r]) THEN AfterReceipt(req[r]) ELSE AfterThrow(req[r])]
  /\ UNCHANGED <<store, sent>>

\* an admin wallet registers a farmer address on the contract
RegisterFarmer(a) ==
  /\ ledger.txCount < MaxTx
  /\ registerFarmerOk(ledger, Account, a)
  /\ a \notin ledger.farmers
  /\ ledger' = registerFarmer(ledger, Account, a)
  /\ UNCHANGED <<store, req, sent>>

\* ------------------------------------------------------------------------
\* The store writes of the controllers

\* new Certification({.., blockchainCertificationId, transactionHash, isValid: true})
CertificationDoc(q) == NewCertificationDoc([certificateHash |-> q.hash, expiryDate |-> Path(q.body, "expiryDate", 2), isValid |-> TRUE, blockchainCertificationId |-> q.newId, transactionHash |-> q.tx])

\* the traceability record of createBatch and of addTraceabilityRecord
RecordObj(q, action) == [action |-> action, handler |-> q.user, blockchainTransactionHash |-> q.tx]

\* new Batch({.., blockchainBatchId, transactionHash, handlers, traceabilityRecords})
BatchDoc(q) == NewBatchDoc([products |-> IF q.target = NoId THEN <<>> ELSE <<q.target>>, blockchainBatchId |-> q.newId, transactionHash |-> q.tx, handlers |-> <<q.user>>, traceabilityRecords |-> <<RecordObj(q, "Batch Created")>>])

\* new Product({.., blockchainProductId, transactionHash}); product.qrCode = {image, verificationUrl}
ProductNew(q) == [NewProductDoc([farmer |-> q.user, blockchainProductId |-> q.newId, transactionHash |-> q.tx]) EXCEPT !.qrCode = "object"]

\* new QRCode({hash, product, imageUrl, verificationUrl, transactionHash, isActive: true})
QRCodeDoc(q) == NewQRCodeDoc([hash |-> q.hash, product |-> q.target, transactionHash |-> q.tx, isActive |-> TRUE])

\* if (!batch.handlers.includes(req.user.id)) batch.handlers.push(req.user.id)
PushHandler(q, handlers) == IF Includes(q.doc.handlers, q.user) THEN handlers ELSE Append(handlers, q.user)

\* does save() succeed?  (pushes are sent as $push; a splice is sent as a
\* $set of the array guarded by the document version)
SaveOk(q) ==
  /\ q.fault # "store"
  /\ CASE q.op = "createBatch" -> BatchValid(BatchDoc(q))
       [] q.op = "createProduct" -> ProductValid(ProductNew(q))
       [] q.op = "addTraceabilityRecord" -> RecordValid(NewRecordDoc(RecordObj(q, "record")))
       [] q.op = "generateQRCode" -> QRCodeValid(store, QRCodeDoc(q))
       [] q.op = "removeCertification" -> store.products[q.target].v = q.doc.v
       [] q.op = "updateBatch" -> q.product = NoId \/ store.batches[q.target].v = q.doc.v
       [] OTHER -> TRUE

\* the collection the request inserts into, and the document
InsertInto(q) ==
  CASE q.op = "createCertification" -> "certifications"
    [] q.op = "createBatch" -> "batches"
    [] q.op = "createProduct" -> "products"
    [] q.op = "generateQRCode" -> "qrcodes"
    [] OTHER -> None

NewDoc(q) ==
  CASE q.op = "createCertification" -> CertificationDoc(q)
    [] q.op = "createBatch" -> BatchDoc(q)
    [] q.op = "createProduct" -> ProductNew(q)
    [] OTHER -> QRCodeDoc(q)

\* a faulty insert: the document is written twice
InsertTwice(st, coll, doc) == [st EXCEPT ![coll] = Append(Append(@, doc), doc)]

\* collection.insertOne(doc)
Insert(st, coll, doc) == [st EXCEPT ![coll] = Append(@, doc)]

\* a faulty update: the record list is written back empty
UpdatedBatchReset(q, doc) == IF q.product = NoId THEN doc ELSE [doc EXCEPT !.products = <<q.product>>, !.v = @ + 1, !.traceabilityRecords = <<>>]

\* updateBatch: batch.products = products (harvestDate and processingMethods are
\* not modelled); the two Product.updateMany on "batches", no path of the product
\* schema, write nothing
UpdatedBatch(q, doc) == IF q.product = NoId THEN doc ELSE [doc EXCEPT !.products = <<q.product>>, !.v = @ + 1]

\* updateCertification: if (expiryDate) certification.expiryDate = expiryDate;
\* if (isValid !== undefined) certification.isValid = isValid (the other fields
\* are not modelled)
UpdatedCertification(q, doc) == [doc EXCEPT !.expiryDate = Path(q.body, "expiryDate", @), !.isValid = Path(q.body, "isValid", @)]

\* a faulty revocation: the certification is also taken off every product
MarkInvalidDetach(q) ==
  [store EXCEPT !.certifications[q.target].isValid = FALSE,
                !.products = [p \in 1..Len(store.products) |-> [store.products[p] EXCEPT !.certifications = SelectSeq(@, LAMBDA c : c # q.target)]]]

\* deleteCertification: certification.isValid = false; certification.save()
MarkInvalid(q) == [store EXCEPT !.certifications[q.target].isValid = FALSE]

\* updateUser: updateFields.role is set when an admin sends a role (the other
\* fields are not modelled); User.findByIdAndUpdate writes when the user exists
UpdatedUsers(q, users) ==
  IF q.target \in DOMAIN users /\ q.user = "admin" /\ "role" \in DOMAIN q.body THEN [users EXCEPT ![q.target].role = q.body.role]
  ELSE users

\* User.findByIdAndDelete(req.params.id)
DeletedUser(q, users) == [u \in DOMAIN users \ {q.target} |-> users[u]]

\* qrCode.scanHistory.push(scanInfo) on a document that has the list
PushScan(doc) == [f \in DOMAIN doc \cup {"scanHistory"} |-> IF f = "scanHistory" THEN Append(Path(doc, "scanHistory", <<>>), "scan") ELSE doc[f]]

\* the store after the save
Saved(q) ==
  CASE InsertInto(q) # None -> Insert(store, InsertInto(q), NewDoc(q))
    [] q.op = "deleteCertification" -> MarkInvalid(q)
    [] q.op = "updateCertification" -> [store EXCEPT !.certifications[q.target] = UpdatedCertification(q, @)]
    [] q.op = "deactivateQRCode" -> [store EXCEPT !.qrcodes[FindQRCode(store, q.hash)].isActive = FALSE]
    [] q.op = "deleteUser" -> [store EXCEPT !.users = DeletedUser(q, @)]
    [] q.op = "updateUser" -> [store EXCEPT !.users = UpdatedUsers(q, @)]
    [] q.op = "verifyQRCode" -> [store EXCEPT !.qrcodes[FindQRCode(store, q.hash)] = PushScan(@)]
    [] q.op = "addTraceabilityRecord" ->
         [store EXCEPT !.batches[q.target].handlers = PushHandler(q, @),
                       !.batches[q.target].traceabilityRecords = Append(@, NewRecordDoc(RecordObj(q, "record")))]
    [] q.op = "addCertification" ->
         [store EXCEPT !.products[q.target].certifications = Append(@, q.cert), !.products[q.target].v = @ + 1]
    [] q.op = "updateBatch" -> [store EXCEPT !.batches[q.target] = UpdatedBatch(q, @)]
    [] OTHER ->
         [store EXCEPT !.products[q.target].certifications = Splice(q.doc.certifications, IndexOf(q.doc.certifications, q.cert)), !.products[q.target].v = @ + 1]

\* the rows the request has created: <<collection, _id>>
RowsAfter(q) == IF InsertInto(q) # None THEN q.rows \cup {<<InsertInto(q), Len(store[InsertInto(q)]) + 1>>} ELSE q.rows

\* the handler after the save
AfterSave(q) ==
  LET q1 == [q EXCEPT !.rows = RowsAfter(q), !.attempts = @ + 1, !.wrote = TRUE]
  IN CASE q.op \in {"createCertification", "createProduct"} -> Respond(q1, 201, "created", q.tx)
       [] q.op = "createBatch" /\ q.target = NoId -> Respond(q1, 201, "created", q.tx)
       [] q.op \in {"createBatch", "generateQRCode"} -> [q1 EXCEPT !.pc = "store2"]
       [] q.op = "addTraceabilityRecord" -> Respond(q1, 201, "Traceability record added successfully", q.tx)
       [] q.op = "verifyQRCode" -> Answer(q1, 200, TRUE, "QR code verified successfully")
       [] q.op = "updateUser" /\ q.target \notin DOMAIN store.users -> Respond(q, 404, "User not found", NoTx)
       [] q.op = "addCertification" -> [q1 EXCEPT !.pc = "ledger", !.doc.certifications = Append(@, q.cert), !.doc.v = @ + 1]
       [] OTHER -> Respond(q1, 200, "ok", NoTx)

AfterSaveError(q) == ServerError([q EXCEPT !.attempts = @ + 1, !.storeFailed = TRUE])

Mirror(r) ==
  /\ req[r].pc = "store"
  /\ store' = IF SaveOk(req[r]) THEN Saved(req[r]) ELSE store
  /\ req' = [req EXCEPT ![r] = IF SaveOk(req[r]) THEN AfterSave(req[r]) ELSE AfterSaveError(req[r])]
  /\ UNCHANGED <<ledger, sent>>

\* the second write: product.qrCode = {hash, image, verificationUrl}; product.save()
\* (generateQRCode), Product.updateMany({$push: {batches}}) (createBatch: no path
\* of the product schema, nothing is written)
Save2Ok(q) == q.fault # "store" /\ (q.op = "generateQRCode" => ProductValid([store.products[q.target] EXCEPT !.qrCode = "object"]))

Saved2(q) == IF q.op = "generateQRCode" THEN [store EXCEPT !.products[q.target].qrCode = "object"] ELSE store

Mirror2(r) ==
  /\ req[r].pc = "store2"
  /\ store' = IF Save2Ok(req[r]) THEN Saved2(req[r]) ELSE store
  /\ req' = [req EXCEPT ![r] = IF Save2Ok(req[r]) THEN Respond([req[r] EXCEPT !.wrote = TRUE], 201, "created", req[r].tx) ELSE ServerError([req[r] EXCEPT !.storeFailed = TRUE])]
  /\ UNCHANGED <<ledger, sent>>

\* addCertification's inner catch: product.certifications.pop(); product.save()
\* ($pop guarded by the document version)
RollbackOk(q) == store.products[q.target].v = q.doc.v

Rollback(r) ==
  /\ req[r].pc = "rollback"
  /\ store' = IF RollbackOk(req[r]) THEN [store EXCEPT !.products[req[r].target].certifications = Pop(@), !.products[req[r].target].v = @ + 1] ELSE store
  /\ req' = [req EXCEPT ![r] = IF RollbackOk(req[r]) THEN Respond(req[r], 500, "Failed to add certification to blockchain", NoTx) ELSE ServerError(req[r])]
  /\ UNCHANGED <<ledger, sent>>

\* qrCode.scanHistory.push(scanInfo): scanHistory must be a path of the document
ScanOk(doc) == "scanHistory" \in DOMAIN doc

\* a faulty handler: an error of the ledger query is taken for a registered code
AfterCallOpen(q) ==
  LET q1 == [q EXCEPT !.queried = TRUE]
  IN IF q.fault # "ledger" /\ ~verifyQRCode(ledger, q.hash) THEN Answer(q1, 200, FALSE, "QR code verification failed on blockchain")
     ELSE Answer([q1 EXCEPT !.registered = TRUE], 200, TRUE, "QR code verified successfully")

\* verifyQRCode after the product was found: contract.methods.verifyQRCode(..).call()
\* and what follows it up to the next await
AfterCall(q) ==
  LET q1 == [q EXCEPT !.queried = TRUE]
  IN IF q.fault = "ledger" THEN Answer(q1, 500, FALSE, "Blockchain verification failed")
     ELSE IF ~verifyQRCode(ledger, q.hash) THEN Answer(q1, 200, FALSE, "QR code verification failed on blockchain")
     ELSE IF ScanOk(store.qrcodes[FindQRCode(store, q.hash)]) THEN [q1 EXCEPT !.registered = TRUE, !.pc = "store"]
     ELSE ServerError([q1 EXCEPT !.registered = TRUE])

Query(r) ==
  /\ req[r].pc = "call"
  /\ req' = [req EXCEPT ![r] = AfterCall(req[r])]
  /\ UNCHANGED <<ledger, store, sent>>

\* the response has been sent: the next request can come in
Close(r) ==
  /\ req[r].pc = "done"
  /\ req' = [req EXCEPT ![r] = Idle]
  /\ UNCHANGED <<ledger, store, sent>>

Init ==
  /\ ledger = LedgerInit
  /\ store = StoreInit
  /\ req = [r \in Req |-> Idle]
  /\ sent = NoSent

Next ==
  \/ \E r \in Req : Receive(r)
  \/ \E r \in Req : Find(r)
  \/ \E r \in Req : Submit(r)
  \/ \E r \in Req : Mirror(r)
  \/ \E r \in Req : Mirror2(r)
  \/ \E r \in Req : Rollback(r)
  \/ \E a \in Addrs : RegisterFarmer(a)

Spec == Init /\ [][Next]_vars

\* ------------------------------------------------------------------------
\* The contract used directly: a wallet sends a transaction, which commits or
\* reverts.  sent is the transaction and its outcome.

Transact(ok, after, t) ==
  /\ ok => ledger.txCount < MaxSent
  /\ ledger' = IF ok THEN after ELSE ledger
  /\ sent' = [t EXCEPT !.ok = ok]
  /\ UNCHANGED <<store, req>>

Tx(fn, w) == [NoSent EXCEPT !.fn = fn, !.sender = w]

SendGrantRole(w) ==
  \E role \in HandlerRoles, a \in Wallets :
    Transact(grantRoleOk(ledger, w, role, a), grantRole(ledger, w, role, a), [Tx("grantRole", w) EXCEPT !.role = role])

SendRegisterFarmer(w) ==
  \E a \in Wallets :
    Transact(registerFarmerOk(ledger, w, a), registerFarmer(ledger, w, a), Tx("registerFarmer", w))

SendCreateBatch(w) ==
  \E productIds \in {<<>>, <<1>>} :
    Transact(createBatchOk(ledger, w), createBatch(ledger, w, productIds), Tx("createBatch", w))

SendCreateProduct(w) ==
  \E batchId \in 0..2 :
    Transact(createProductOk(ledger, w, batchId), createProduct(ledger, w, batchId), [Tx("createProduct", w) EXCEPT !.batchId = batchId])

SendAddTraceabilityRecord(w) ==
  \E batchId \in 0..2 :
    Transact(addTraceabilityRecordOk(ledger, w, batchId), addTraceabilityRecord(ledger, w, batchId, "record"), [Tx("addTraceabilityRecord", w) EXCEPT !.batchId = batchId])

SendAddCertification(w) ==
  \E certificateHash \in {"c1", None} :
    Transact(addCertificationOk(ledger, w, certificateHash), addCertification(ledger, w, certificateHash), Tx("addCertification", w))

SendAddCertificationToProduct(w) ==
  \E productId \in 0..1, certificationId \in 0..1 :
    Transact(addCertificationToProductOk(ledger, w, productId, certificationId), addCertificationToProduct(ledger, w, productId, certificationId), [Tx("addCertificationToProduct", w) EXCEPT !.productId = productId, !.certificationId = certificationId])

SendRegisterQRCode(w) ==
  \E qrCodeHash \in Hashes, productId \in 0..1 :
    Transact(registerQRCodeOk(ledger, w, qrCodeHash, productId), registerQRCode(ledger, w, qrCodeHash, productId), [Tx("registerQRCode", w) EXCEPT !.hash = qrCodeHash, !.productId = productId])

SendRenounceRole(w) ==
  \E role \in HandlerRoles, a \in Wallets :
    Transact(renounceRoleOk(ledger, w, role, a), renounceRole(ledger, w, role, a), [Tx("renounceRole", w) EXCEPT !.role = role])

NextLedger ==
  \/ \E w \in Wallets : SendGrantRole(w)
  \/ \E w \in Wallets : SendRegisterFarmer(w)
  \/ \E w \in Wallets : SendCreateBatch(w)
  \/ \E w \in Wallets : SendCreateProduct(w)
  \/ \E w \in Wallets : SendAddTraceabilityRecord(w)
  \/ \E w \in Wallets : SendAddCertification(w)
  \/ \E w \in Wallets : SendAddCertificationToProduct(w)

SpecLedger == Init /\ [][NextLedger]_vars

\* ------------------------------------------------------------------------
\* The batch: one request on a batch together with the wallets' batch
\* transactions.

NextBatch ==
  \/ ReceiveBatch(1)
  \/ Find(1)
  \/ Submit(1)
  \/ Mirror(1)
  \/ \E w \in Wallets : SendRegisterFarmer(w)
  \/ \E w \in Wallets : SendCreateBatch(w)
  \/ \E w \in Wallets : SendAddTraceabilityRecord(w)

SpecBatch == Init /\ [][NextBatch]_vars

\* ------------------------------------------------------------------------
\* The products and their batches: one request that creates a product or a
\* batch, or rewrites a batch's product list, together with the wallets'
\* transactions of the same kind.

NextProduct ==
  \/ ReceiveProduct(1)
  \/ Find(1)
  \/ Submit(1)
  \/ Mirror(1)
  \/ \E w \in Wallets : SendRegisterFarmer(w)
  \/ \E w \in Wallets : SendCreateBatch(w)
  \/ \E w \in Wallets : SendCreateProduct(w)

SpecProduct == Init /\ [][NextProduct]_vars

\* ------------------------------------------------------------------------
\* The certifications: requests that change a certification, verify one or
\* attach one to a product.

NextCertification ==
  \/ \E r \in Req : ReceiveCertification(r)
  \/ \E r \in Req : Find(r)
  \/ \E r \in Req : Submit(r)
  \/ \E r \in Req : Mirror(r)
  \/ \E r \in Req : Rollback(r)

SpecCertification == Init /\ [][NextCertification]_vars

\* ------------------------------------------------------------------------
\* The QR codes: requests that generate, deactivate and verify a code, one after
\* the other, on a store that was seeded again over existing QR codes.

InitQRCode ==
  /\ ledger = LedgerInit
  /\ store = [StoreInit EXCEPT !.qrcodes = <<OrphanQRCode>>]
  /\ req = [r \in Req |-> Idle]
  /\ sent = NoSent

NextQRCode ==
  \/ ReceiveQRCode(1)
  \/ Find(1)
  \/ Submit(1)
  \/ Query(1)
  \/ Mirror(1)
  \/ Mirror2(1)
  \/ Close(1)
  \/ \E w \in Wallets : SendRegisterQRCode(w)

SpecQRCode == InitQRCode /\ [][NextQRCode]_vars

\* ------------------------------------------------------------------------
\* The middleware authorize on its own: any principal against any required set.
\* The request holds the principal, the set (body.roles) and the status answered.

Authorize(r) ==
  /\ \E user \in Capabilities \cup {Anon}, roles \in SUBSET Capabilities :
       req' = [req EXCEPT ![r] = [Idle EXCEPT !.op = "authorize", !.user = user, !.body = [roles |-> roles], !.pc = "done", !.resp.status = authorize(user, roles)]]
  /\ UNCHANGED <<ledger, store, sent>>

NextAuthorize == Authorize(1)

SpecAuthorize == Init /\ [][NextAuthorize]_vars

\* ------------------------------------------------------------------------
\* The users: requests that update and delete users, the slots being used again

NextUser ==
  \/ \E r \in Req : ReceiveUser(r)
  \/ \E r \in Req : Find(r)
  \/ \E r \in Req : Count(r)
  \/ \E r \in Req : Mirror(r)
  \/ \E r \in Req : Close(r)

SpecUser == Init /\ [][NextUser]_vars

\* ------------------------------------------------------------------------
\* The capabilities: one request on a user together with the wallets'
\* transactions that register a farmer and give up a role

NextRole ==
  \/ ReceiveUser(1)
  \/ Find(1)
  \/ Count(1)
  \/ Mirror(1)
  \/ \E w \in Wallets : SendRegisterFarmer(w)
  \/ \E w \in Wallets : SendRenounceRole(w)

SpecRole == Init /\ [][NextRole]_vars

\* ------------------------------------------------------------------------
\* Properties

Done(r) == req[r].pc = "done"

\* the request got a receipt and its store write failed
Orphaned(r) == Done(r) /\ req[r].tx # NoTx /\ req[r].storeFailed

\* C1: when the ledger transaction committed and the store write then failed, the
\* response is a reconciliation error that carries the transaction reference and
\* differs from the response to a ledger failure ("Server error", no reference).
C1_ReconciliationError == \A r \in Req : Orphaned(r) => (req[r].resp.tx = req[r].tx /\ req[r].resp.message # "Server error")

\* C2: a request whose validation failed or whose ledger submission failed has
\* written nothing to the store, in every state it passes through.
C2_FailureLeavesNoTrace == \A r \in Req : ((req[r].submitted /\ req[r].tx = NoTx) \/ req[r].resp.status = 400) => ~req[r].wrote

StoreRows(st) == Len(st.certifications) + Len(st.products) + Len(st.batches) + Len(st.qrcodes)

C4_BoundedRetry == \A r \in Req : (Done(r) /\ req[r].tx # NoTx) => (~req[r].storeFailed \/ (req[r].attempts > 1 /\ req[r].resp.message = "ReconciliationError"))

\* the facts of ledger l are facts of ledger m
KeepsBatch(b, c) == b.id = c.id /\ IsPrefix(b.productIds, c.productIds) /\ IsPrefix(b.handlerIds, c.handlerIds) /\ IsPrefix(b.traceabilityRecords, c.traceabilityRecords) /\ (b.isActive => c.isActive)

KeepsProduct(p, q) == p.id = q.id /\ p.farmerId = q.farmerId /\ p.batchId = q.batchId /\ IsPrefix(p.certificationIds, q.certificationIds)

LedgerGrows(l, m) ==
  /\ l.txCount <= m.txCount /\ l.farmers \subseteq m.farmers /\ l.registeredQRCodes \subseteq m.registeredQRCodes
  /\ IsPrefix(l.certifications, m.certifications)
  /\ Len(l.products) <= Len(m.products) /\ \A i \in 1..Len(l.products) : KeepsProduct(l.products[i], m.products[i])
  /\ Len(l.batches) <= Len(m.batches) /\ \A i \in 1..Len(l.batches) : KeepsBatch(l.batches[i], m.batches[i])

\* the step is a store write, a rollback, or any step of removeCertification
OffChainStep(r) == req'[r] # req[r] /\ (req[r].op = "removeCertification" \/ req[r].pc \in {"store", "store2", "rollback"})

\* C5: no step removes or reverses a fact of the ledger, and a store write, the
\* handling of a failed store write, the rollback of addCertification and
\* removeCertification submit no ledger transaction.
C5_NoCompensation == [][LedgerGrows(ledger, ledger') /\ \A r \in Req : OffChainStep(r) => ledger' = ledger]_vars

C5_Witness == \E r \in Req : Orphaned(r) /\ req[r].op = "createCertification" /\ req[r].newId \in 1..Len(ledger.certifications)

SynchronizedOps == {"createProduct", "createBatch", "createCertification", "addTraceabilityRecord", "generateQRCode"}

C7_RejectedBeforeLedger == \A r \in Req : (req[r].op = "addCertification" /\ req[r].cert \notin 1..Len(store.certifications)) => ~req[r].submitted

\* the row <<collection, _id>> of the store
Row(row) == store[row[1]][row[2]]

\* C8: every store row created by a synchronized operation carries the transaction
\* reference of its receipt and, except for a QR code, the ledger-assigned id.
C8_RowsCarryReference == \A r \in Req : \A row \in req[r].rows : Row(row).blockchainInfo.transactionHash = req[r].tx /\ (row[1] # "qrcodes" => Row(row).blockchainInfo.id = req[r].newId)

\* the completed appends to batch 1 that met no transport or store fault
Appends == {r \in Req : Done(r) /\ req[r].op = "addTraceabilityRecord" /\ req[r].target = 1 /\ req[r].fault = "none" /\ req[r].resp.status \notin {400, 401, 403}}

\* C9: N appends to one batch by N distinct principals add exactly N records, and the
\* N principals are in the handler set.
C9_ConcurrentAppends ==
  (\A r, s \in Appends : r # s => req[r].user # req[s].user)
    => /\ Len(store.batches[1].traceabilityRecords) = Len(StoreInit.batches[1].traceabilityRecords) + Cardinality(Appends)
       /\ \A r \in Appends : Includes(store.batches[1].handlers, req[r].user)

\* C10: every traceability record has a sequence number, and the sequence numbers of
\* a batch increase strictly in append order.
C10_SequenceNumbers ==
  \A b \in 1..Len(store.batches) :
    LET recs == store.batches[b].traceabilityRecords
    IN /\ \A i \in 1..Len(recs) : "sequence" \in DOMAIN recs[i]
       /\ \A i, j \in 1..Len(recs) : i < j => recs[i].sequence < recs[j].sequence

\* the batches of the store and of the ledger keep their number
BatchesStay == Len(store.batches) <= Len(store'.batches) /\ Len(ledger.batches) <= Len(ledger'.batches)

\* C11: the traceability record list of a batch is append-only: in every step,
\* whatever the operation (createBatch, addTraceabilityRecord, updateBatch), the list
\* before is a prefix of the list after, in the store and on the ledger.
C11_AppendOnly ==
  [][/\ BatchesStay
     /\ \A b \in 1..Len(store.batches) : IsPrefix(store.batches[b].traceabilityRecords, store'.batches[b].traceabilityRecords)
     /\ \A b \in 1..Len(ledger.batches) : IsPrefix(ledger.batches[b].traceabilityRecords, ledger'.batches[b].traceabilityRecords)]_vars

C11_Witness ==
  /\ req[1].op = "updateBatch" /\ Done(1) /\ req[1].resp.status = 200 /\ req[1].product = 1 /\ store.batches[1].v = 1
  /\ Len(store.batches[1].traceabilityRecords) = 1
  /\ \E b \in 1..Len(ledger.batches) : Len(ledger.batches[b].traceabilityRecords) >= 2

NoDuplicate(s) == \A i, j \in 1..Len(s) : i # j => s[i] # s[j]

\* a step on a handler list h with record list recs, whose records name their
\* handler in field f: nothing changes it but an append by someone absent from it
HandlerStep(h, hNew, recs, recsNew, f) ==
  /\ NoDuplicate(hNew)
  /\ IsPrefix(h, hNew)
  /\ hNew # h => /\ Len(recsNew) = Len(recs) + 1
                 /\ ~Includes(h, recsNew[Len(recsNew)][f])
                 /\ hNew = Append(h, recsNew[Len(recsNew)][f])
  /\ (Len(recsNew) = Len(recs) + 1 /\ Includes(h, recsNew[Len(recsNew)][f])) => hNew = h

FirstMatch(roles) ==
  IF "farmer" \in roles THEN "FARMER"
  ELSE IF "processor" \in roles THEN "PROCESSOR"
  ELSE IF "distributor" \in roles THEN "DISTRIBUTOR"
  ELSE "RETAILER"

\* C13: the handler role stored on a new ledger record is the highest-precedence
\* capability the sender holds (farmer > processor > distributor > retailer, first
\* match wins).
C13_RolePrecedence ==
  [][\A b \in 1..Len(ledger.batches) :
       Len(ledger'.batches[b].traceabilityRecords) = Len(ledger.batches[b].traceabilityRecords) + 1 =>
         LET rec == ledger'.batches[b].traceabilityRecords[Len(ledger'.batches[b].traceabilityRecords)]
         IN rec.handlerRole = FirstMatch(LedgerRoles(ledger, rec.handlerId))]_vars

\* the ledger holds no active batch with this id
Inactive(l, id) == id \notin 1..Len(l.batches) \/ ~l.batches[id].isActive

C15_Unauthorized ==
  \A r \in Req : (req[r].op = "addTraceabilityRecord" /\ req[r].user \notin HandlerRoles) =>
    (req[r].pc \in {"idle", "done"} /\ (Done(r) => req[r].resp.status \in {400, 401, 403}))

\* the sender of the transaction a step commits: the wallet, or the backend's account
Committer == IF req' = req THEN sent'.sender ELSE Account

\* C16: right after a createBatch that succeeded for principal F, the new batch has
\* exactly one traceability record, the batch-creation record attributed to F, its
\* handler set is exactly {F}, and it is active.
C16_NewBatch ==
  [][Len(ledger'.batches) # Len(ledger.batches) =>
       LET b == ledger'.batches[Len(ledger'.batches)]
       IN /\ Len(ledger'.batches) = Len(ledger.batches) + 1
          /\ Len(b.traceabilityRecords) = 1
          /\ b.traceabilityRecords[1].action = "BATCH_CREATED"
          /\ b.traceabilityRecords[1].handlerId = Committer
          /\ b.handlerIds = <<Committer>>
          /\ b.isActive]_vars

C16_Witness ==
  /\ sent.fn = "createBatch" /\ sent.ok /\ sent.sender = "wallet1"
  /\ Len(ledger.batches) = 2
  /\ ledger.batches[1].handlerIds = <<Account>>
  /\ ledger.batches[2].handlerIds = <<"wallet1">>
  /\ Len(ledger.batches[2].traceabilityRecords) = 1
  /\ req[1].op = "createBatch" /\ req[1].submitted /\ req[1].tx # NoTx

\* the batch argument of the createProduct a step commits: the wallet's, or none
\* (the controller passes no batch)
GivenBatch == IF req' = req THEN sent'.batchId ELSE NoId

\* C17: a createProduct with no batch creates a new batch in the same operation;
\* after it that batch's product list is exactly the new product, and the product's
\* batch reference is that batch.
C17_NewBatchForProduct ==
  [][(Len(ledger'.products) # Len(ledger.products) /\ GivenBatch = NoId) =>
       /\ Len(ledger'.products) = Len(ledger.products) + 1
       /\ Len(ledger'.batches) = Len(ledger.batches) + 1
       /\ ledger'.batches[Len(ledger'.batches)].productIds = <<Len(ledger'.products)>>
       /\ ledger'.products[Len(ledger'.products)].batchId = Len(ledger'.batches)
       /\ \A b \in 1..Len(ledger.batches) : ledger'.batches[b] = ledger.batches[b]]_vars

C17_Witness ==
  /\ sent.fn = "createProduct" /\ sent.ok /\ sent.batchId = 0
  /\ Len(ledger.products) = 2 /\ Len(ledger.batches) = 2
  /\ ledger.products[1].batchId = 1 /\ ledger.products[2].batchId = 2
  /\ ledger.batches[1].productIds = <<1>> /\ ledger.batches[2].productIds = <<2>>
  /\ req[1].op = "createProduct" /\ req[1].tx # NoTx

\* C18: a createProduct that names a batch which is inactive or does not exist
\* fails, creates no product and leaves every product list as it was; one that names
\* an active batch appends the new product's id to that batch's product list.
C18_GivenBatch ==
  [][/\ (sent' # sent /\ sent'.fn = "createProduct" /\ sent'.batchId # NoId /\ Inactive(ledger, sent'.batchId)) =>
          (~sent'.ok /\ ledger' = ledger /\ store' = store)
     /\ (Len(ledger'.products) # Len(ledger.products) /\ GivenBatch # NoId) =>
          /\ ~Inactive(ledger, GivenBatch)
          /\ Len(ledger'.products) = Len(ledger.products) + 1
          /\ Len(ledger'.batches) = Len(ledger.batches)
          /\ ledger'.products[Len(ledger'.products)].batchId = GivenBatch
          /\ \A b \in 1..Len(ledger.batches) :
               ledger'.batches[b].productIds = IF b = GivenBatch THEN Append(ledger.batches[b].productIds, Len(ledger'.products))
                                               ELSE ledger.batches[b].productIds]_vars

C18_Witness ==
  /\ sent.fn = "createProduct" /\ ~sent.ok /\ sent.batchId = 2 /\ Inactive(ledger, 2)
  /\ hasFarmerRole(ledger, sent.sender) /\ sent.sender \in ledger.farmers
  /\ Len(ledger.batches) = 1 /\ ledger.batches[1].productIds = <<1, 2>>
  /\ ledger.products[2].batchId = 1

\* C19: in every reachable state every product has one batch reference, it is not
\* null, and it names a batch that exists, on the ledger and in the store, whatever
\* createProduct, createBatch and updateBatch have done.
C19_BatchReference ==
  /\ \A p \in 1..Len(ledger.products) : ledger.products[p].batchId \in 1..Len(ledger.batches)
  /\ \A p \in 1..Len(store.products) : store.products[p].batch \in 1..Len(store.batches)

C19_Witness ==
  /\ req[1].op = "updateBatch" /\ Done(1) /\ req[1].resp.status = 200 /\ req[1].product = 1 /\ store.batches[1].v = 1
  /\ {"createBatch", "createProduct"} \subseteq ledger.called
  /\ Len(ledger.products) >= 2 /\ Len(ledger.batches) >= 2
  /\ \E p, q \in 1..Len(ledger.products) : ledger.products[p].batchId # ledger.products[q].batchId

\* the certifications that are invalid from the start
Revoked == {c \in 1..Len(StoreInit.certifications) : ~StoreInit.certifications[c].isValid}

\* C20: attaching a certification whose isValid is false fails and leaves the
\* product's certification list unchanged: whenever no request is in progress, no
\* product's list holds such a certification.
C20_InvalidCertification ==
  (\A r \in Req : req[r].pc \in {"idle", "done"}) =>
    \A p \in 1..Len(store.products) : \A c \in Revoked : ~Includes(store.products[p].certifications, c)

\* C21: attaching a certification fails as not found, changing nothing, when the
\* product id is unknown and also when the certification id is unknown: a request by
\* the owner or an admin, with no injected fault, ends with 404 and has written nothing.
C21_NotFound ==
  \A r \in Req :
    (/\ req[r].op = "addCertification" /\ Done(r) /\ req[r].fault = "none" /\ req[r].user \in {"farmer", "admin"}
     /\ (req[r].target \notin 1..Len(store.products) \/ req[r].cert \notin 1..Len(store.certifications))) =>
      (req[r].resp.status = 404 /\ req[r].attempts = 0 /\ ~req[r].submitted)

\* C22: a change to a certification's validity or expiry date (deleteCertification,
\* updateCertification) never takes it off a product: a step that changes a
\* certification leaves every product's certification list as it was, in the store
\* and on the ledger.
C22_LinkPreserved ==
  [][store'.certifications # store.certifications =>
       /\ Len(store'.products) = Len(store.products)
       /\ \A p \in 1..Len(store.products) : store'.products[p].certifications = store.products[p].certifications
       /\ ledger'.products = ledger.products]_vars

C22_Witness ==
  /\ Includes(store.products[1].certifications, 1)
  /\ ~store.certifications[1].isValid
  /\ \E r \in Req : req[r].op \in {"deleteCertification", "updateCertification"} /\ Done(r) /\ req[r].wrote /\ req[r].target = 1

\* the step in which request r, a verifyCertification with a hash, is answered
Verifies(r) == req[r].op = "verifyCertification" /\ req[r].pc = "find" /\ req[r].hash # None /\ Done(r)'

\* the certificate the store holds for the hash of request r, and whether the
\* request's clock reading is after its expiry date
Found(r) == store.certifications[FindCertification(store, req[r].hash)]

Expired(r) == req[r].now > Found(r).expiryDate

\* C27: verifyCertification on an existing certificate reports the reason expired
\* whenever now is after the expiry date, whatever isValid is: for a certificate both
\* expired and revoked the reason is expired, never revoked.
C27_ExpiryFirst ==
  [][\A r \in Req : (Verifies(r) /\ FindCertification(store, req[r].hash) # 0 /\ Expired(r)) =>
       (req'[r].resp.verified = "false" /\ req'[r].resp.message = "Certificate has expired")]_vars

\* C28: verifyCertification answers verified:true if and only if the store holds a
\* certificate for the hash whose isValid is true and whose expiry date is not before
\* now; an absent hash is answered not found, and a certificate that is not expired
\* and has isValid false is answered revoked.
C28_Verified ==
  [][\A r \in Req : Verifies(r) =>
       /\ req'[r].resp.verified = "true" <=> (FindCertification(store, req[r].hash) # 0 /\ Found(r).isValid /\ ~Expired(r))
       /\ FindCertification(store, req[r].hash) = 0 => (req'[r].resp.status = 404 /\ req'[r].resp.verified = "false" /\ req'[r].resp.message = "Certificate not found")
       /\ (FindCertification(store, req[r].hash) # 0 /\ ~Expired(r) /\ ~Found(r).isValid) => (req'[r].resp.verified = "false" /\ req'[r].resp.message = "Certificate has been revoked")]_vars

C28_Witness ==
  /\ req[1].op = "updateCertification" /\ Done(1) /\ req[1].wrote /\ req[1].target = 1 /\ "expiryDate" \in DOMAIN req[1].body
  /\ req[2].op = "verifyCertification" /\ Done(2) /\ req[2].hash = "h0" /\ req[2].now = 2
  /\ req[2].resp.verified = "true" /\ store.certifications[1].expiryDate = 2

\* the step in which request r, a verifyQRCode, has looked the hash up
LooksUp(r) == req[r].op = "verifyQRCode" /\ req[r].pc = "find" /\ req'[r].pc # "find"

\* C23: verifyQRCode on a hash whose store record is not active answers
\* verified:false with the reason deactivated, whatever the ledger holds for the
\* hash, and does not query the ledger.
C23_Deactivated ==
  [][\A r \in Req : (LooksUp(r) /\ FindQRCode(store, req[r].hash) # 0 /\ ~store.qrcodes[FindQRCode(store, req[r].hash)].isActive) =>
       /\ Done(r)' /\ req'[r].resp.verified = "false" /\ req'[r].resp.message = "QR code has been deactivated"
       /\ ~req'[r].queried]_vars

C23_Witness ==
  /\ req[1].op = "verifyQRCode" /\ Done(1) /\ req[1].resp.message = "QR code has been deactivated" /\ req[1].resp.verified = "false"
  /\ verifyQRCode(ledger, req[1].hash) /\ ~req[1].queried

\* C24: verifyQRCode answers verified:false, not found, when the store has no
\* record for the hash, and also when the record is active and its product is
\* missing from the store.
C24_NotFound ==
  [][\A r \in Req : LooksUp(r) =>
       /\ FindQRCode(store, req[r].hash) = 0 =>
            (Done(r)' /\ req'[r].resp.status = 404 /\ req'[r].resp.verified = "false" /\ req'[r].resp.message = "QR code not found")
       /\ (/\ FindQRCode(store, req[r].hash) # 0
           /\ store.qrcodes[FindQRCode(store, req[r].hash)].isActive
           /\ store.qrcodes[FindQRCode(store, req[r].hash)].product \notin 1..Len(store.products)) =>
            (Done(r)' /\ req'[r].resp.status = 404 /\ req'[r].resp.verified = "false" /\ req'[r].resp.message = "Associated product not found")]_vars

C24_Witness ==
  /\ req[1].op = "verifyQRCode" /\ Done(1) /\ req[1].hash = "h8" /\ req[1].resp.status = 404
  /\ req[1].resp.message = "Associated product not found"
  /\ Len(store.qrcodes) >= 2 /\ ledger.registeredQRCodes # {}

\* C25: verifyQRCode on an active hash with an existing product answers
\* verified:true exactly when the ledger reports the hash registered; when the ledger
\* reports it not registered the answer is verified:false with the ledger-mismatch
\* reason.
C25_LedgerDecides ==
  \A r \in Req : (req[r].op = "verifyQRCode" /\ Done(r) /\ req[r].queried /\ req[r].fault = "none") =>
    /\ req[r].resp.verified = "true" <=> verifyQRCode(ledger, req[r].hash)
    /\ ~verifyQRCode(ledger, req[r].hash) => (req[r].resp.verified = "false" /\ req[r].resp.message = "QR code verification failed on blockchain")

\* C26: once the ledger has reported the code registered, the answer is
\* verified:true, whether or not the scan event could be appended.
C26_ScanBestEffort ==
  \A r \in Req : (req[r].op = "verifyQRCode" /\ Done(r) /\ req[r].registered) => req[r].resp.verified = "true"

CapabilityFor(op) ==
  CASE op = "createCertification" -> {"admin", "certifier"}
    [] op = "deleteCertification" -> {"admin"}
    [] op = "createBatch" -> {"admin", "farmer", "processor"}
    [] op \in {"createProduct", "generateQRCode"} -> {"admin", "farmer"}
    [] op = "addTraceabilityRecord" -> {"admin"} \cup HandlerRoles
    [] OTHER -> Principals \ {Anon}

\* the request is allowed to do what it asks for
Permitted(q) ==
  /\ q.user # Anon
  /\ q.user \in CapabilityFor(q.op)
  /\ q.op \in {"addCertification", "removeCertification", "generateQRCode"} => (store.products[q.target].farmer = q.user \/ q.user = "admin")
  /\ q.op = "updateBatch" => (Includes(store.batches[q.target].handlers, q.user) \/ q.user = "admin")

C31_FarmerKept ==
  [][/\ \A u \in DOMAIN store.users : store.users[u].role = "farmer" => u \in DOMAIN store'.users
     /\ ledger.farmers \subseteq ledger'.farmers]_vars

\* C32: a capability set changes only through an operation authorized by an admin:
\* a step that changes a user's role in the store is a step of an admin's request,
\* and a step that changes the roles of an address on the ledger is a transaction
\* sent by the admin.
C32_AdminGrants ==
  [][/\ \A u \in DOMAIN store.users \cap DOMAIN store'.users :
          store'.users[u].role # store.users[u].role => \E r \in Req : req[r].user = "admin" /\ req[r].pc = "store" /\ req'[r] # req[r]
     /\ ledger'.roles # ledger.roles => hasAdminRole(sent'.sender)]_vars

\* C38: when the store holds an admin, it still holds one after every step of a
\* deleteUser request, however the deleteUser requests interleave.
C38_LastAdmin ==
  [][(AdminCount(store) >= 1 /\ \E r \in Req : req[r].op = "deleteUser" /\ req'[r] # req[r]) => AdminCount(store') >= 1]_vars

\* no two QR records of the store have the same hash
UniqueHashes(st) == \A i, j \in 1..Len(st.qrcodes) : i # j => st.qrcodes[i].hash # st.qrcodes[j].hash

\* C33: QR hashes are unique and their binding is immutable: no two QR records share
\* a hash, a registration of a hash the ledger already holds is rejected and changes
\* nothing, and no step removes a QR record or changes its hash or its product.
C33_UniqueBinding ==
  [][/\ UniqueHashes(store')
     /\ (sent' # sent /\ sent'.fn = "registerQRCode" /\ sent'.hash \in ledger.registeredQRCodes) => (~sent'.ok /\ ledger' = ledger)
     /\ \A r \in Req : (req[r].op = "generateQRCode" /\ req[r].pc = "ledger" /\ req'[r] # req[r] /\ req[r].hash \in ledger.registeredQRCodes) => (ledger' = ledger /\ store' = store)
     /\ Len(store'.qrcodes) >= Len(store.qrcodes)
     /\ \A i \in 1..Len(store.qrcodes) : store'.qrcodes[i].hash = store.qrcodes[i].hash /\ store'.qrcodes[i].product = store.qrcodes[i].product]_vars

C33_Witness ==
  /\ sent.fn = "registerQRCode" /\ ~sent.ok /\ hasAdminRole(sent.sender) /\ sent.productId = 0 /\ sent.hash \in ledger.registeredQRCodes
  /\ Len(store.qrcodes) = 2 /\ store.qrcodes[2].product = 1 /\ ~store.qrcodes[2].isActive
  /\ Cardinality(ledger.registeredQRCodes) = 2

\* C34: when the ledger call of an attach fails, the rollback restores the product's
\* certification list, whatever other attach and detach requests do meanwhile: once
\* the request has ended, the certification it pushed is no longer on the product
\* (no other request naming that certification).
C34_RollbackRestores ==
  \A r \in Req : (req[r].op = "addCertification" /\ Done(r) /\ req[r].wrote /\ req[r].submitted /\ req[r].tx = NoTx /\ \A t \in Req \ {r} : req[t].cert # req[r].cert) =>
    ~Includes(store.products[req[r].target].certifications, req[r].cert)

\* C35: verifyQRCode fails closed: when the ledger query raises an error, the
\* request ends in that step with verified:false, never verified:true, and the store
\* is left as it was: no scan event is appended.
C35_FailsClosed ==
  [][\A r \in Req : (req[r].op = "verifyQRCode" /\ req[r].pc = "call" /\ req[r].fault = "ledger" /\ req'[r] # req[r]) =>
       (Done(r)' /\ req'[r].resp.verified = "false" /\ req'[r].resp.status = 500 /\ store' = store)]_vars

C35_Witness ==
  /\ req[1].op = "verifyQRCode" /\ Done(1) /\ req[1].fault = "ledger" /\ req[1].queried
  /\ req[1].resp.verified = "false" /\ req[1].resp.message = "Blockchain verification failed"
  /\ verifyQRCode(ledger, req[1].hash)

\* the scan events a QR record holds
ScanHistory(doc) == doc.scans \o Path(doc, "scanHistory", <<>>)

\* the hash of request r is one that verifyQRCode does not verify: there is no
\* record, the record is deactivated, its product is missing, or the ledger does not
\* hold the hash
NotGenuine(r) ==
  \/ FindQRCode(store, req[r].hash) = 0
  \/ ~store.qrcodes[FindQRCode(store, req[r].hash)].isActive
  \/ store.qrcodes[FindQRCode(store, req[r].hash)].product \notin 1..Len(store.products)
  \/ req[r].hash \notin ledger.registeredQRCodes

\* C36: a scan history changes only by the append of one scan event in a step of a
\* verifyQRCode request that is answered verified:true; a step of a verifyQRCode
\* request on a hash that does not verify (not found, deactivated, orphaned, not on
\* the ledger) and a step of a verifyCertification request leave the store unchanged.
C36_ScanFrame ==
  [][/\ \A i \in 1..Len(store.qrcodes) :
          ScanHistory(store'.qrcodes[i]) # ScanHistory(store.qrcodes[i]) =>
            /\ Len(ScanHistory(store'.qrcodes[i])) = Len(ScanHistory(store.qrcodes[i])) + 1
            /\ IsPrefix(ScanHistory(store.qrcodes[i]), ScanHistory(store'.qrcodes[i]))
            /\ \E r \in Req : req[r].op = "verifyQRCode" /\ req[r].hash = store.qrcodes[i].hash /\ Done(r)' /\ req'[r].resp.verified = "true"
     /\ \A r \in Req : (req[r].op = "verifyQRCode" /\ req'[r] # req[r] /\ NotGenuine(r)) => store' = store
     /\ \A r \in Req : (req[r].op = "verifyCertification" /\ req'[r] # req[r]) => store' = store]_vars

C36_Witness ==
  /\ req[1].op = "verifyQRCode" /\ Done(1) /\ req[1].resp.verified = "false" /\ req[1].resp.message = "QR code has been deactivated"
  /\ Len(store.qrcodes) = 2 /\ store.qrcodes[2].hash = req[1].hash /\ ScanHistory(store.qrcodes[2]) = <<>>

\* C37: deactivation is restricted and permanent: a step that sets a QR record's
\* active flag to false is a step of a deactivateQRCode request by the farmer who
\* owns the bound product or by an admin; no step sets the flag of a deactivated
\* record back to true; and a verifyQRCode that is answered while the record of its
\* hash is deactivated is not answered verified:true.
C37_Deactivation ==
  [][/\ \A i \in 1..Len(store.qrcodes) :
          (store.qrcodes[i].isActive /\ ~store'.qrcodes[i].isActive) =>
            \E r \in Req : /\ req[r].op = "deactivateQRCode" /\ req[r].hash = store.qrcodes[i].hash /\ req'[r] # req[r]
                           /\ store.qrcodes[i].product \in 1..Len(store.products)
                           /\ (req[r].user = "admin" \/ req[r].user = store.products[store.qrcodes[i].product].farmer)
     /\ \A i \in 1..Len(store.qrcodes) : ~store.qrcodes[i].isActive => ~store'.qrcodes[i].isActive
     /\ \A r \in Req : (/\ req[r].op = "verifyQRCode" /\ ~Done(r) /\ Done(r)'
                         /\ FindQRCode(store, req[r].hash) # 0 /\ ~store.qrcodes[FindQRCode(store, req[r].hash)].isActive) =>
          req'[r].resp.verified = "false"]_vars

C37_Witness ==
  /\ req[1].op = "deactivateQRCode" /\ Done(1) /\ req[1].resp.status = 403 /\ req[1].user = "consumer"
  /\ Len(store.qrcodes) = 3 /\ store.qrcodes[3].hash = req[1].hash /\ store.qrcodes[3].isActive
  /\ ~store.qrcodes[2].isActive

\* C39: on the ledger batch membership is consistent in both directions: every id in
\* the product list of batch b is a product that exists and whose batch is b, every
\* product is in the product list of its batch, and no id is in the lists of two
\* batches.
C39_Membership ==
  /\ \A b \in 1..Len(ledger.batches) : \A i \in 1..Len(ledger.batches[b].productIds) :
       LET p == ledger.batches[b].productIds[i]
       IN p \in 1..Len(ledger.products) /\ ledger.products[p].batchId = b
  /\ \A p \in 1..Len(ledger.products) :
       ledger.products[p].batchId \in 1..Len(ledger.batches) /\ Includes(ledger.batches[ledger.products[p].batchId].productIds, p)
  /\ \A b, c \in 1..Len(ledger.batches) : b # c =>
       \A i \in 1..Len(ledger.batches[b].productIds) : ~Includes(ledger.batches[c].productIds, ledger.batches[b].productIds[i])

====
